---- MODULE Spec2Model ----
(***************************************************************************)
(* y-jotai: the createYAtom engine of src/src/index.ts as a state machine. *)
(*                                                                         *)
(* One binding (one createYAtom result read through one store) over two    *)
(* Y.Map nodes "A" and "B", each attached to its own Y.Doc.  A node's      *)
(* state is the value stored under the key "a"; the key "b" is a key the   *)
(* projection does not read.  read(m) is m.get('a'), with a placeholder    *)
(* for a null node; write(m, v) is m.set('a', v).                          *)
(*                                                                         *)
(* The store and the document are the two collaborators of the engine.     *)
(* Of the document the model keeps what the engine relies on: observers    *)
(* are called synchronously when the outermost transaction on the document *)
(* ends, once per transaction, with the set of keys changed.  Of the store *)
(* it keeps: the effect atom's read function is evaluated when the atom    *)
(* is first read and again when an atom it read has changed; onMount runs  *)
(* after the first read of a mount.  The source registers the cleanup of   *)
(* an observer on the 'abort' event of the read's signal and nowhere else  *)
(* (index.ts:189), and whether that event is ever raised is the store's    *)
(* business: cfg.hostAborts = TRUE is a store that raises it before every  *)
(* re-evaluation and on unmount (what the comment at index.ts:146-147      *)
(* expects), cfg.hostAborts = FALSE a store that never raises it for a     *)
(* read function that returned synchronously.                              *)
(***************************************************************************)
EXTENDS Integers, FiniteSets, Sequences, TLC

\* ------------------------------------------------------------------ bounds
MaxVal == 1
MaxHandlers == 2
MaxTxnLen == 2

\* --------------------------------------------------------------- constants
Nodes == {"A", "B"}
NULL == "null"
\* sentinels share the integers with the snapshot values
UNSET == -2
TypeError == -3
NullVal == -1
\* errors raised by a caller-supplied read, write or unsubscribe
ReadError == -4
WriteError == -5
UnsubError == -6
Val == 0..MaxVal
Keys == {"a", "b"}
Modes == {"narrow", "filter", "deep"}
EqKinds == {"shallow", "coarse"}
Updates == [kind : {"value"}, v : Val] \cup [kind : {"updater"}, v : {1}]
\* one mutation of a map: set(k, v); the value of "b" is not tracked
Ops == [k : {"a"}, v : Val] \cup [k : {"b"}, v : {0}]
\* the mutation sequences a transaction function makes
Batches == UNION {[1..len -> Ops] : len \in 1..MaxTxnLen}

VARIABLES
    cfg,        \* the options the binding was created with (never changes)
    ymap,       \* ymap[n]: the value under key "a" of node n
    source,     \* value of ySourceAtom
    snapAtom,   \* cached snapshot, or UNSET
    lastYAtom,  \* node the snapshot was last computed against, or NULL
    yRefAtom,   \* node captured by init when resubscribe is off, or NULL
    mounted,    \* the binding has an observer in the store
    handlers,   \* handlers[n]: observers this binding has registered on n
    subY,       \* node whose observer the registered cleanup removes, or NULL
    effDirty,   \* the effect atom must be (re-)evaluated at its next read
    effSrcDep,  \* the latest evaluation of the effect read ySourceAtom
    subErr,     \* the latest evaluation of the effect threw
    hist,       \* what the last operation did (observation only)
    call,       \* a direct call of withTransact or of the write path: arguments, outcome
    fac         \* a call of a specialised factory or a binding made by one: arguments, node content, outcome

vars == <<cfg, ymap, source, snapAtom, lastYAtom, yRefAtom, mounted, handlers,
          subY, effDirty, effSrcDep, subErr, hist, call, fac>>

\* ------------------------------------------------------- pure definitions

\* read: (m) => m ? m.get('a') : placeholder
Read(y, m) == IF y = NULL THEN NullVal ELSE m[y]

\* shallowEqual on primitives is Object.is
shallowEqual(a, b) == a = b

\* a caller-supplied equals that identifies neighbouring values
coarseEqual(a, b) == (a \div 2) = (b \div 2)

equals(a, b) == IF cfg.eq = "shallow" THEN shallowEqual(a, b) ELSE coarseEqual(a, b)

\* an updater applied to the cached snapshot instead of the node's value
ResolveFromCache(update, current) ==
    IF update.kind = "updater"
    THEN (IF snapAtom < 0 THEN 0 ELSE (snapAtom + 1) % (MaxVal + 1))
    ELSE update.v

\* update applied to the current value: a plain value, or prev => prev + 1
ResolveNext(update, current) ==
    IF update.kind = "updater" THEN (IF current < 0 THEN 0 ELSE (current + 1) % (MaxVal + 1))
    ELSE update.v

\* the keys a batch changes (YMapEvent.keysChanged)
KeysOf(ops) == {ops[i].k : i \in 1..Len(ops)}

\* the value under "a" after the mutations ops, applied in order
RECURSIVE ApplyOps(_, _)
ApplyOps(val, ops) ==
    IF ops = <<>> THEN val
    ELSE ApplyOps(IF Head(ops).k = "a" THEN Head(ops).v ELSE val, Tail(ops))

\* a write function that leaves the node as it was
withoutWrite(n, ops, m) == m

\* a transaction on the document of another node
withTransactElsewhere(n, ops, m) ==
    LET o == CHOOSE x \in Nodes : x # n
    IN [m EXCEPT ![o] = ApplyOps(m[o], ops)]

\* withTransact(doc, fn): fn's mutations of node n are committed as one batch
withTransact(n, ops, m) == [m EXCEPT ![n] = ApplyOps(m[n], ops)]

\* a binding that always follows the source
getSourceY(ref, src) == src

\* a binding that uses the captured node only, null included
getPinnedY(ref, src) == ref

\* getActiveY
getActiveY(ref, src) ==
    IF cfg.resub THEN src ELSE (IF ref # NULL THEN ref ELSE src)

\* stateAtom's read function
stateAtom(y, s, lastY, m) ==
    IF cfg.resub /\ lastY # y THEN Read(y, m)
    ELSE IF s # UNSET THEN s
    ELSE Read(y, m)

\* a cache write without the equality guard
SnapAlways(prev, next) == next

\* the guarded cache write shared by sync and init
SnapAfter(prev, next) ==
    IF prev = UNSET \/ ~equals(prev, next) THEN next ELSE prev

\* a callback that consults no filter
EventPassesAll(keys) == TRUE

\* a callback that applies the filter to deep event arrays as well
EventPassesKeyOnly(keys) == "a" \in keys

\* the subscribeY callback's guard: does the event reach setSelf({type:'sync'})
EventPasses(keys) ==
    IF cfg.mode = "filter" THEN "a" \in keys ELSE TRUE

\* a sync that stamps the active node and leaves the cache alone
SyncStampOnly(s, ref, src, m) == [snap |-> s, lastY |-> getActiveY(ref, src)]

\* a sync that stamps the active node only when it writes the cache
SyncStampOnWrite(s, ref, src, m) ==
    LET y == getActiveY(ref, src)
        next == Read(y, m)
    IN [snap |-> SnapAfter(s, next),
        lastY |-> IF SnapAfter(s, next) # s THEN y ELSE lastYAtom]

\* one 'sync' action of subscriptionAtom's write function
SyncStep(s, ref, src, m) ==
    LET y == getActiveY(ref, src)
        next == Read(y, m)
    IN [snap |-> SnapAfter(s, next), lastY |-> y]

\* an init that pins the source and seeds nothing
InitPinOnly(s, l, ref, src, m) ==
    [snap |-> s, lastY |-> l, ref |-> IF ~cfg.resub THEN src ELSE ref]

\* the 'init' action of subscriptionAtom's write function
InitStep(s, l, ref, src, m) ==
    LET ref1 == IF ~cfg.resub THEN src ELSE ref
        y == getActiveY(ref1, src)
    IN IF cfg.hasYAtom
       THEN [snap |-> SnapAfter(s, Read(y, m)), lastY |-> y, ref |-> ref1]
       ELSE [snap |-> s, lastY |-> l, ref |-> ref1]

\* removing one observer (unobserve), run by the cleanup on 'abort'
Cleanup(h, sy) ==
    IF cfg.hostAborts /\ sy # NULL /\ h[sy] > 0 THEN [h EXCEPT ![sy] = @ - 1] ELSE h

\* one evaluation of subscriptionAtom's read function
RunEffect(h, sy, ref, src) ==
    LET y == getActiveY(ref, src)
        h0 == Cleanup(h, sy)
        dep == cfg.resub \/ ref = NULL
    IN IF y = NULL
       THEN [h |-> h0, sy |-> NULL, err |-> TRUE, dep |-> dep]
       ELSE [h |-> [h0 EXCEPT ![y] = IF @ < MaxHandlers THEN @ + 1 ELSE @],
             sy |-> IF cfg.hostAborts THEN y ELSE NULL, err |-> FALSE, dep |-> dep]

\* delivery of one change event of node n to the binding's observers on n
Deliver(n, keys, s, l, ref, src, m, h) ==
    IF h[n] > 0 /\ EventPasses(keys)
    THEN LET r == SyncStep(s, ref, src, m)
         IN [snap |-> r.snap, lastY |-> r.lastY, syncs |-> h[n], calls |-> h[n]]
    ELSE [snap |-> s, lastY |-> l, syncs |-> 0, calls |-> h[n]]

\* a write function of out that stores the written value in the cache
AfterWriteSets(d, next) == [d EXCEPT !.snap = next]

\* what the write function of out does with the cache once withTransact has
\* returned: nothing, d is what the delivered event left
AfterWrite(d, next) == d

\* what get() on the public atom returns in the current state: the read of
\* out evaluates the effect first if it has to be, and rethrows its error
OutRead ==
    LET err == IF effDirty THEN getActiveY(yRefAtom, source) = NULL ELSE subErr
    IN IF err THEN TypeError ELSE stateAtom(source, snapAtom, lastYAtom, ymap)

\* hist: what the last operation caused: the number of observer calls, the
\* number of sync steps, and the value handed to write (UNSET if write did
\* not run)
Hist(calls, syncs, wrote) == [calls |-> calls, syncs |-> syncs, wrote |-> wrote]

NoHist == Hist(0, 0, UNSET)

\* -------------------------------------------- transactions and origin tags

\* the transactionOrigin option: absent, a plain value, or a function
OriginOpts == {"unset", "static", "function"}
\* createYAtom, or createYPathAtom on top of it
Layers == {"atom", "path"}
\* process.env.NODE_ENV
Envs == {"development", "production"}

\* the exported default tags are symbols
ATOM_WRITE_ORIGIN == "Symbol(jotai-yjs/atom-write)"
PATH_WRITE_ORIGIN == "Symbol(jotai-yjs/path-write)"
\* a configured plain value, and what a configured function returns for
\* { y, type: 'write' }
StaticOrigin == "static-origin"
FnOrigin == "fn-origin-write"
\* no tag: origin undefined, or no transaction
NoOrigin == "undefined"

\* the origin the write path hands to withTransact
transactionOrigin(opt) ==
    IF opt = "function" THEN FnOrigin
    ELSE IF opt = "static" THEN StaticOrigin
    ELSE ATOM_WRITE_ORIGIN

\* createYPathAtom: the option it passes on to createYAtom is never absent
atomTransactionOrigin(opt) ==
    IF opt = "unset" THEN PATH_WRITE_ORIGIN ELSE transactionOrigin(opt)

ResolveOrigin(layer, opt) ==
    IF layer = "path" THEN atomTransactionOrigin(opt) ELSE transactionOrigin(opt)

\* what one call of withTransact(doc, fn, origin) does: how often fn ran, how
\* many transactions were opened and with which tag, whether console.warn was
\* called, whether an exception left the call
Outcome(ran, txns, tag, warned, threw) ==
    [ran |-> ran, txns |-> txns, tag |-> tag, warned |-> warned, threw |-> threw]

NoOutcome == Outcome(0, 0, NoOrigin, FALSE, FALSE)

\* a wrapper that skips fn when there is no document
TransactAttachedOnly(doc, fnThrows, origin, env) ==
    IF doc THEN Outcome(1, 1, origin, FALSE, fnThrows)
    ELSE Outcome(0, 0, NoOrigin, env # "production", FALSE)

\* withTransact(doc, fn, origin), fn raising an exception or not
TransactOutcome(doc, fnThrows, origin, env) ==
    IF ~doc
    THEN Outcome(1, 0, NoOrigin, env # "production", fnThrows)
    ELSE Outcome(1, 1, origin, FALSE, fnThrows)

\* direct calls of withTransact, and set() calls that reach withTransact
TransactCalls ==
    [api : {"withTransact"}, doc : BOOLEAN, ops : Batches, throws : BOOLEAN,
     env : Envs, origin : {StaticOrigin, NoOrigin}]

SetCalls ==
    [api : {"set"}, doc : BOOLEAN, ops : Batches, throws : BOOLEAN,
     env : Envs, layer : Layers, opt : OriginOpts]

NoCall == [args |-> [api |-> "none"], out |-> NoOutcome]

\* --------------------------------------------------- specialised factories

MaxIndex == 2
MaxRun == 2
MaxDelta == 3
MaxArr == 3
MaxText == 3
MaxCalls == 2

\* JavaScript's undefined, as an array item or as a value
Undefined == -7
\* a key a map does not have, or an object does not own
Absent == -9
\* JavaScript's null
JsNull == -8
\* two nested Y types
YTypeA == 100
YTypeB == 101
YTypes == {YTypeA, YTypeB}

NoFac == [kind |-> "none"]

\* the arguments the factories validate: a key (a string or not, its
\* length), an index (an integer or not, its integer part), a path (its
\* length)
CreateCalls ==
    [factory : {"createYMapKeyAtom"}, isString : BOOLEAN, len : 0..1, env : Envs]
    \cup [factory : {"createYArrayIndexAtom"}, isInteger : BOOLEAN,
          index : -1..1, env : Envs]
    \cup [factory : {"createYPathAtom"}, len : 0..2, env : Envs]

\* a factory without its validation block
ValidNever(c) == TRUE

\* the validation at the top of a factory: TRUE when it does not throw
Valid(c) ==
    IF c.env = "production" THEN TRUE
    ELSE IF c.factory = "createYMapKeyAtom" THEN c.isString /\ c.len # 0
    ELSE IF c.factory = "createYArrayIndexAtom" THEN c.isInteger /\ c.index >= 0
    ELSE c.len # 0

\* what a factory call did: threw, returned an atom, and the number of
\* observers registered and of node reads and mutations made by the call
Created(c) ==
    [threw |-> ~Valid(c), atom |-> Valid(c), observers |-> 0, reads |-> 0,
     mutations |-> 0]

\* one run of a positional delta: { retain: n }, { insert: n items },
\* { delete: n }
Runs == [t : {"retain", "insert", "delete"}, n : 1..MaxRun]
Deltas == UNION {[1..len -> Runs] : len \in 1..MaxDelta}
\* a YArrayEvent: its changes.delta is an array, or is not
ArrayEvents ==
    [hasDelta : {TRUE}, delta : Deltas] \cup {[hasDelta |-> FALSE, delta |-> <<>>]}

\* a filter that counts a delete only when its range covers the index
RECURSIVE FilterOverlapOnly(_, _, _)
FilterOverlapOnly(delta, pos, index) ==
    IF delta = <<>> THEN FALSE
    ELSE LET change == Head(delta)
         IN IF change.t = "retain"
            THEN FilterOverlapOnly(Tail(delta), pos + change.n, index)
            ELSE IF change.t = "insert"
            THEN (IF pos <= index THEN TRUE
                  ELSE FilterOverlapOnly(Tail(delta), pos + change.n, index))
            ELSE (IF pos <= index /\ pos + change.n > index THEN TRUE
                  ELSE FilterOverlapOnly(Tail(delta), pos, index))

\* the loop of createYArrayIndexAtom's eventFilter, from position pos
RECURSIVE FilterDelta(_, _, _)
FilterDelta(delta, pos, index) ==
    IF delta = <<>> THEN FALSE
    ELSE LET change == Head(delta)
         IN IF change.t = "retain"
            THEN FilterDelta(Tail(delta), pos + change.n, index)
            ELSE IF change.t = "insert"
            THEN (IF pos <= index THEN TRUE
                  ELSE FilterDelta(Tail(delta), pos + change.n, index))
            ELSE (IF pos <= index /\ pos + change.n > index THEN TRUE
                  ELSE IF pos <= index THEN TRUE
                  ELSE FilterDelta(Tail(delta), pos, index))

\* a filter that lets through only events that start at the index
arrayFilterAtIndexOnly(evt, index) ==
    evt.hasDelta /\ Len(evt.delta) = 2 /\ evt.delta[1].n = index

\* createYArrayIndexAtom's eventFilter
arrayEventFilter(evt, index) ==
    IF ~evt.hasDelta THEN TRUE ELSE FilterDelta(evt.delta, 0, index)

\* the contents of a Y.Array of numbers
Arrays == UNION {[1..len -> Val] : len \in 0..MaxArr}

\* Y.Array.get(index): undefined beyond the end
ArrGet(a, index) == IF index < Len(a) THEN a[index + 1] ELSE Undefined

\* Y.Array.insert(p, items) and Y.Array.delete(p, k) within bounds
ArrInsert(a, p, items) == SubSeq(a, 1, p) \o items \o SubSeq(a, p + 1, Len(a))
ArrDelete(a, p, k) == SubSeq(a, 1, p) \o SubSeq(a, p + k + 1, Len(a))

\* the delta of the event of one insert or delete at position p
DeltaOf(t, p, k) ==
    (IF p > 0 THEN <<[t |-> "retain", n |-> p]>> ELSE <<>>) \o <<[t |-> t, n |-> k]>>

\* the cache of an array-index binding after the observer callback got evt
ArraySync(snap, a, index, evt) ==
    IF arrayEventFilter(evt, index) THEN SnapAfter(snap, ArrGet(a, index))
    ELSE snap

\* the keys of the Y.Map under a multi-key binding; "c" is never configured
MapKeys == {"a", "b", "c"}
\* what a map holds under a key, and what an object passed to set() owns
\* under it
MapVals == Val \cup {Undefined, Absent}
FieldMaps == [a : MapVals, b : MapVals, c : {Absent, 0}]
FieldNexts == [a : MapVals, b : MapVals, c : {Absent, 1}]
FieldOpts ==
    [keys : {{"a"}, {"a", "b"}}, includeUndefined : BOOLEAN,
     deleteOnUndefined : BOOLEAN, fieldEquals : {"is", "coarse"}]

\* Y.Map.get: undefined for a key the map does not have
MapGet(m, k) == IF m[k] = Absent THEN Undefined ELSE m[k]

\* opts.fieldEquals: Object.is, or a caller's looser comparison
fieldEquals(o, a, b) ==
    IF o.fieldEquals = "is" THEN a = b ELSE coarseEqual(a, b)

\* readFields: the object with the configured keys the map has (every
\* configured key with includeUndefined)
readFields(o, m) ==
    [k \in MapKeys |->
        IF k \notin o.keys THEN Absent
        ELSE IF o.includeUndefined THEN MapGet(m, k)
        ELSE m[k]]

\* shallowEqual on two objects: the same own keys with identical values
shallowEqualObj(x, y) == \A k \in MapKeys : x[k] = y[k]

\* a writer that sets every configured key the object owns
fieldsWriteAll(o, m, next) ==
    [k \in MapKeys |->
        IF k \notin o.keys \/ next[k] = Absent THEN "none"
        ELSE IF next[k] = Undefined
        THEN (IF o.deleteOnUndefined /\ m[k] # Absent THEN "delete" ELSE "none")
        ELSE "set"]

\* createYMapFieldsAtom's write: the operation it makes on each key
fieldsWrite(o, m, next) ==
    [k \in MapKeys |->
        IF k \notin o.keys THEN "none"
        ELSE IF next[k] = Absent THEN "none"
        ELSE IF next[k] = Undefined
        THEN (IF o.deleteOnUndefined /\ m[k] # Absent THEN "delete" ELSE "none")
        ELSE IF m[k] = Absent THEN "set"
        ELSE IF ~fieldEquals(o, MapGet(m, k), next[k]) THEN "set"
        ELSE "none"]

\* the map after the operations ops with the values of next
MapAfter(m, ops, next) ==
    [k \in MapKeys |->
        IF ops[k] = "set" THEN next[k]
        ELSE IF ops[k] = "delete" THEN Absent
        ELSE m[k]]

NoOps == [k \in MapKeys |-> "none"]

\* what the map of a map-entry binding holds under the key: nothing, null,
\* a value that is no Y type, a Y type
EntryVals == {Absent, JsNull} \cup Val \cup YTypes

\* createYMapEntryAtom's readEntry without a typeGuard
readEntry(v) == IF v \in YTypes THEN v ELSE JsNull

\* createYMapEntryAtom's write
entryWrite(deleteOnNull, v, next) ==
    IF next = JsNull /\ deleteOnNull THEN Absent ELSE next

\* the contents of a Y.Text: strings over two characters
Texts == UNION {[1..len -> Val] : len \in 0..MaxText}

\* fast-diff's operations
DIFF_DELETE == -1
DIFF_EQUAL == 0
DIFF_INSERT == 1

\* diff(current, next): the edit scripts the library may return, runs of
\* DELETE, INSERT and EQUAL whose deleted and equal texts make up current
\* and whose inserted and equal texts make up next
RECURSIVE diff(_, _)
diff(current, next) ==
    IF current = <<>> /\ next = <<>> THEN {<<>>}
    ELSE UNION (
          {{<<[op |-> DIFF_DELETE, text |-> SubSeq(current, 1, k)]>> \o rest :
                rest \in diff(SubSeq(current, k + 1, Len(current)), next)} :
             k \in 1..Len(current)}
          \cup
          {{<<[op |-> DIFF_INSERT, text |-> SubSeq(next, 1, k)]>> \o rest :
                rest \in diff(current, SubSeq(next, k + 1, Len(next)))} :
             k \in 1..Len(next)}
          \cup
          {{<<[op |-> DIFF_EQUAL, text |-> SubSeq(next, 1, k)]>> \o rest :
                rest \in diff(SubSeq(current, k + 1, Len(current)),
                              SubSeq(next, k + 1, Len(next)))} :
             k \in {j \in 1..Len(next) :
                      j <= Len(current) /\ SubSeq(current, 1, j) = SubSeq(next, 1, j)}})

\* Y.Text.delete(offset, length) and Y.Text.insert(offset, text): a position
\* past the end of the text stops at its end
TextPos(t, offset) == IF offset > Len(t) THEN Len(t) ELSE offset
TextDelete(t, offset, len) ==
    SubSeq(t, 1, TextPos(t, offset)) \o SubSeq(t, TextPos(t, offset + len) + 1, Len(t))
TextInsert(t, offset, text) ==
    SubSeq(t, 1, TextPos(t, offset)) \o text \o SubSeq(t, TextPos(t, offset) + 1, Len(t))

\* a loop that advances the offset past a deleted run as well
RECURSIVE applyPatchesAdvancing(_, _, _, _)
applyPatchesAdvancing(t, patches, offset, nops) ==
    IF patches = <<>> THEN [t |-> t, nops |-> nops]
    ELSE LET run == Head(patches)
             len == Len(run.text)
         IN IF run.op = DIFF_DELETE
            THEN applyPatchesAdvancing(TextDelete(t, offset, len), Tail(patches),
                                       offset + len, nops + 1)
            ELSE IF run.op = DIFF_INSERT
            THEN applyPatchesAdvancing(TextInsert(t, offset, run.text), Tail(patches),
                                       offset + len, nops + 1)
            ELSE applyPatchesAdvancing(t, Tail(patches), offset + len, nops)

\* the loop of createYTextAtom's write over the patches: the text after it
\* and the number of insert and delete operations made
RECURSIVE applyPatches(_, _, _, _)
applyPatches(t, patches, offset, nops) ==
    IF patches = <<>> THEN [t |-> t, nops |-> nops]
    ELSE LET run == Head(patches)
             len == Len(run.text)
         IN IF run.op = DIFF_DELETE
            THEN applyPatches(TextDelete(t, offset, len), Tail(patches),
                              offset, nops + 1)
            ELSE IF run.op = DIFF_INSERT
            THEN applyPatches(TextInsert(t, offset, run.text), Tail(patches),
                              offset + len, nops + 1)
            ELSE applyPatches(t, Tail(patches), offset + len, nops)

\* a writer that applies the patches with the other loop
textWriteAdvancing(t, patches) == applyPatchesAdvancing(t, patches, 0, 0)

\* createYTextAtom's write, given the patches diff returned
textWrite(t, patches) == applyPatches(t, patches, 0, 0)

\* what a path binding's last segment lands in: the parent the path's
\* leading segments resolve to is a Y.Map, a Y.Array, or neither (a missing
\* key or a plain value)
PathParents == {"map", "array", "none"}

\* the part of the document a path binding can reach: the value under the
\* last key of a map parent and the items of an array parent
PathDocs == [slot : Val \cup {Absent}, arr : Arrays]

\* readAtPath with the default projector
readAtPath(parent, doc, idx) ==
    IF parent = "map" THEN (IF doc.slot = Absent THEN Undefined ELSE doc.slot)
    ELSE IF parent = "array" THEN ArrGet(doc.arr, idx)
    ELSE Undefined

\* a default writer that deletes the key or the slot on undefined
writeAtPathDeleting(parent, doc, idx, env, next) ==
    LET warn == env # "production"
        same == [doc |-> doc, warned |-> FALSE, mutated |-> FALSE]
        skip == [doc |-> doc, warned |-> warn, mutated |-> FALSE]
    IN IF parent = "none" THEN skip
       ELSE IF parent = "map"
       THEN (IF next = Undefined
             THEN [doc |-> [doc EXCEPT !.slot = Absent], warned |-> warn,
                   mutated |-> TRUE]
             ELSE IF doc.slot = next THEN same
             ELSE [doc |-> [doc EXCEPT !.slot = next], warned |-> FALSE,
                   mutated |-> TRUE])
       ELSE IF next = Undefined
       THEN [doc |-> [doc EXCEPT !.arr = ArrDelete(doc.arr, idx, 1)],
             warned |-> warn, mutated |-> TRUE]
       ELSE IF idx < Len(doc.arr)
       THEN (IF doc.arr[idx + 1] = next THEN same
             ELSE [doc |-> [doc EXCEPT !.arr = ArrInsert(ArrDelete(doc.arr, idx, 1),
                                                        idx, <<next>>)],
                   warned |-> FALSE, mutated |-> TRUE])
       ELSE [doc |-> [doc EXCEPT !.arr = ArrInsert(doc.arr, Len(doc.arr), <<next>>)],
             warned |-> FALSE, mutated |-> TRUE]

\* writeAtPath with no custom writer: the document after it, whether it
\* warned and whether it changed the document
writeAtPath(parent, doc, idx, env, next) ==
    LET warn == env # "production"
        same == [doc |-> doc, warned |-> FALSE, mutated |-> FALSE]
        skip == [doc |-> doc, warned |-> warn, mutated |-> FALSE]
    IN IF parent = "none" THEN skip
       ELSE IF next = Undefined THEN skip
       ELSE IF parent = "map"
       THEN (IF doc.slot = next THEN same
             ELSE [doc |-> [doc EXCEPT !.slot = next], warned |-> FALSE,
                   mutated |-> TRUE])
       ELSE IF idx < Len(doc.arr)
       THEN (IF doc.arr[idx + 1] = next THEN same
             ELSE [doc |-> [doc EXCEPT !.arr = ArrInsert(ArrDelete(doc.arr, idx, 1),
                                                        idx, <<next>>)],
                   warned |-> FALSE, mutated |-> TRUE])
       ELSE [doc |-> [doc EXCEPT !.arr = ArrInsert(doc.arr, Len(doc.arr), <<next>>)],
             warned |-> FALSE, mutated |-> TRUE]

\* createYArrayIndexAtom's write: Y.Array.delete throws when the index has
\* no item, before anything is changed
arrayIndexWrite(a, index, next) ==
    IF index < Len(a)
    THEN [y |-> ArrInsert(ArrDelete(a, index, 1), index, <<next>>),
          threw |-> FALSE, mutated |-> TRUE]
    ELSE [y |-> a, threw |-> TRUE, mutated |-> FALSE]

\* ------------------------------------------------------------------- Init
Configs ==
    [hasYAtom : BOOLEAN, resub : BOOLEAN, mode : Modes, eq : EqKinds,
     hasWrite : BOOLEAN, hostAborts : BOOLEAN]

Init ==
    /\ cfg \in Configs
    /\ ymap \in [Nodes -> Val]
    /\ source \in (IF cfg.hasYAtom THEN Nodes \cup {NULL} ELSE Nodes)
    /\ snapAtom = UNSET
    /\ lastYAtom = NULL
    /\ yRefAtom = NULL
    /\ mounted = FALSE
    /\ handlers = [n \in Nodes |-> 0]
    /\ subY = NULL
    /\ effDirty = TRUE
    /\ effSrcDep = TRUE
    /\ subErr = FALSE
    /\ hist = NoHist
    /\ call = NoCall
    /\ fac = NoFac

\* the effect's state when no evaluation happens
KeepEffect == [h |-> handlers, sy |-> subY, err |-> subErr, dep |-> effSrcDep]

\* ---------------------------------------------------------------- actions

\* store.sub(out, cb): first read of out (which evaluates the effect if it
\* has to be), then subscriptionAtom.onMount = set({type:'init'}); a change
\* of yRefAtom made by init re-evaluates the mounted effect.
Mount ==
    /\ ~mounted
    /\ LET e1 == IF effDirty THEN RunEffect(handlers, subY, yRefAtom, source)
                 ELSE KeepEffect
           i  == InitStep(snapAtom, lastYAtom, yRefAtom, source, ymap)
           e2 == IF i.ref # yRefAtom THEN RunEffect(e1.h, e1.sy, i.ref, source)
                 ELSE e1
       IN /\ mounted' = TRUE
          /\ snapAtom' = i.snap
          /\ lastYAtom' = i.lastY
          /\ yRefAtom' = i.ref
          /\ handlers' = e2.h
          /\ subY' = e2.sy
          /\ subErr' = e2.err
          /\ effSrcDep' = e2.dep
          /\ effDirty' = FALSE
          /\ hist' = NoHist
    /\ UNCHANGED <<cfg, fac, call, ymap, source>>

\* the last observer of out leaves the store
Unmount ==
    /\ mounted
    /\ mounted' = FALSE
    /\ handlers' = Cleanup(handlers, subY)
    /\ subY' = IF cfg.hostAborts THEN NULL ELSE subY
    /\ effDirty' = cfg.hostAborts
    /\ hist' = NoHist
    /\ UNCHANGED <<cfg, fac, call, ymap, source, snapAtom, lastYAtom, yRefAtom, effSrcDep,
                   subErr>>

\* store.get(out): get(subscriptionAtom), then get(stateAtom)
Get ==
    /\ LET e == IF effDirty THEN RunEffect(handlers, subY, yRefAtom, source)
                ELSE KeepEffect
       IN /\ handlers' = e.h
          /\ subY' = e.sy
          /\ subErr' = e.err
          /\ effSrcDep' = e.dep
          /\ effDirty' = FALSE
          /\ hist' = NoHist
    /\ UNCHANGED <<cfg, fac, call, ymap, source, snapAtom, lastYAtom, yRefAtom, mounted>>

\* store.set(ySourceAtom, n) by the owner of a dynamic source
SwitchSource(n) ==
    /\ cfg.hasYAtom
    /\ n # source
    /\ source' = n
    /\ LET e == IF mounted /\ effSrcDep
                THEN RunEffect(handlers, subY, yRefAtom, n) ELSE KeepEffect
       IN /\ handlers' = e.h
          /\ subY' = e.sy
          /\ subErr' = e.err
          /\ effSrcDep' = e.dep
    /\ effDirty' = (effDirty \/ (~mounted /\ effSrcDep))
    /\ hist' = NoHist
    /\ UNCHANGED <<cfg, fac, call, ymap, snapAtom, lastYAtom, yRefAtom, mounted>>

\* a committed mutation batch of node n with changed keys ks: the document
\* calls the observers of n once, after the last mutation of the batch
Committed(n, ks, m, wrote) ==
    LET d0 == Deliver(n, ks, snapAtom, lastYAtom, yRefAtom, source, m, handlers)
        d == IF wrote = UNSET THEN d0 ELSE AfterWrite(d0, wrote)
    IN /\ snapAtom' = d.snap
       /\ lastYAtom' = d.lastY
       /\ hist' = Hist(d.calls, d.syncs, wrote)

\* store.set(out, update): the write function of the public atom
Set(update) ==
    /\ LET y == getActiveY(yRefAtom, source)
           current == Read(y, ymap)
           next == ResolveNext(update, current)
       IN IF ~cfg.hasWrite \/ equals(current, next)
          THEN /\ hist' = NoHist
               /\ UNCHANGED <<ymap, snapAtom, lastYAtom>>
          ELSE IF y = NULL
          THEN /\ hist' = Hist(0, 0, TypeError)
               /\ UNCHANGED <<ymap, snapAtom, lastYAtom>>
          ELSE /\ ymap' = withTransact(y, <<[k |-> "a", v |-> next]>>, ymap)
               /\ Committed(y, {"a"}, ymap', next)
    /\ UNCHANGED <<cfg, fac, call, source, yRefAtom, mounted, handlers, subY, effDirty,
                   effSrcDep, subErr>>

\* another writer sets the key the projection reads: n.set('a', v)
ExtSetA(n, v) ==
    /\ ymap' = [ymap EXCEPT ![n] = v]
    /\ Committed(n, {"a"}, ymap', UNSET)
    /\ UNCHANGED <<cfg, fac, call, source, yRefAtom, mounted, handlers, subY, effDirty,
                   effSrcDep, subErr>>

\* another writer sets a key the projection does not read: n.set('b', ...)
ExtSetB(n) ==
    /\ Committed(n, {"b"}, ymap, UNSET)
    /\ UNCHANGED <<cfg, fac, call, ymap, source, yRefAtom, mounted, handlers, subY, effDirty,
                   effSrcDep, subErr>>

\* another writer runs withTransact(doc, fn) where fn makes the mutations ops
\* of node n, in order
Transact(n, ops) ==
    /\ ymap' = withTransact(n, ops, ymap)
    /\ Committed(n, KeysOf(ops), ymap', UNSET)
    /\ UNCHANGED <<cfg, fac, call, source, yRefAtom, mounted, handlers, subY, effDirty,
                   effSrcDep, subErr>>

Next ==
    \/ Mount
    \/ Unmount
    \/ Get
    \/ \E n \in Nodes \cup {NULL} : SwitchSource(n)
    \/ \E u \in Updates : Set(u)
    \/ \E n \in Nodes, v \in Val : ExtSetA(n, v)
    \/ \E n \in Nodes : ExtSetB(n)

Spec == Init /\ [][Next]_vars

\* the same program with writers that group their mutations in transactions
NextTxn ==
    \/ Next
    \/ \E n \in Nodes, ops \in Batches : Transact(n, ops)

SpecTxn == Init /\ [][NextTxn]_vars

\* the same program over a source that never changes and is a node, observed
\* from its mount on
InitFixed == Init /\ source # NULL

NextFixed ==
    \/ Mount
    \/ Get
    \/ \E u \in Updates : Set(u)
    \/ \E n \in Nodes, v \in Val : ExtSetA(n, v)
    \/ \E n \in Nodes : ExtSetB(n)
    \/ \E n \in Nodes, ops \in Batches : Transact(n, ops)

SpecFixed == InitFixed /\ [][NextFixed]_vars

\* ------------------------------------------- functions that raise errors

\* store.get(out) with a read function that throws in this call: the effect
\* is evaluated first, then stateAtom calls read, whose error leaves get()
GetReadThrows ==
    /\ OutRead # TypeError
    /\ snapAtom = UNSET \/ (cfg.resub /\ lastYAtom # source)
    /\ LET e == IF effDirty THEN RunEffect(handlers, subY, yRefAtom, source)
                ELSE KeepEffect
       IN /\ handlers' = e.h
          /\ subY' = e.sy
          /\ subErr' = e.err
          /\ effSrcDep' = e.dep
          /\ effDirty' = FALSE
          /\ hist' = Hist(0, 0, ReadError)
    /\ UNCHANGED <<cfg, fac, call, ymap, source, snapAtom, lastYAtom, yRefAtom, mounted>>

\* store.set(out, update) with a write function that throws at once: the
\* transaction commits nothing and the error leaves set()
SetWriteThrows(update) ==
    /\ LET y == getActiveY(yRefAtom, source)
           current == Read(y, ymap)
           next == ResolveNext(update, current)
       IN cfg.hasWrite /\ y # NULL /\ ~equals(current, next)
    /\ hist' = Hist(0, 0, WriteError)
    /\ UNCHANGED <<cfg, fac, call, ymap, source, snapAtom, lastYAtom, yRefAtom, mounted,
                   handlers, subY, effDirty, effSrcDep, subErr>>

\* the handlers left by a cleanup whose unsubscribe() throws: the handler was
\* removed before the error, or it was not
CleanupThrows(h, sy) == {Cleanup(h, sy), h}

\* Unmount, the abort listener's unsubscribe() throwing: the error is caught
\* in cleanup
UnmountUnsubThrows ==
    /\ mounted
    /\ cfg.hostAborts
    /\ subY # NULL
    /\ mounted' = FALSE
    /\ handlers' \in CleanupThrows(handlers, subY)
    /\ subY' = NULL
    /\ effDirty' = TRUE
    /\ hist' = Hist(0, 0, UnsubError)
    /\ UNCHANGED <<cfg, fac, call, ymap, source, snapAtom, lastYAtom, yRefAtom, effSrcDep,
                   subErr>>

\* SwitchSource for a mounted binding that resubscribes, the abort
\* listener's unsubscribe() throwing before the effect is evaluated again
SwitchSourceUnsubThrows(n) ==
    /\ cfg.hasYAtom
    /\ n # source
    /\ mounted
    /\ effSrcDep
    /\ cfg.hostAborts
    /\ subY # NULL
    /\ source' = n
    /\ \E h0 \in CleanupThrows(handlers, subY) :
          LET e == RunEffect(h0, NULL, yRefAtom, n)
          IN /\ handlers' = e.h
             /\ subY' = e.sy
             /\ subErr' = e.err
             /\ effSrcDep' = e.dep
    /\ effDirty' = effDirty
    /\ hist' = Hist(0, 0, UnsubError)
    /\ UNCHANGED <<cfg, fac, call, ymap, snapAtom, lastYAtom, yRefAtom, mounted>>

NextThrow ==
    \/ Next
    \/ GetReadThrows
    \/ \E u \in Updates : SetWriteThrows(u)
    \/ UnmountUnsubThrows
    \/ \E n \in Nodes \cup {NULL} : SwitchSourceUnsubThrows(n)

SpecThrow == Init /\ [][NextThrow]_vars

\* a binding over the literal node A with default options, left alone, and
\* one call about to be made on A
InitCall ==
    /\ call \in [args : TransactCalls \cup SetCalls, out : {NoOutcome}]
    /\ cfg = [hasYAtom |-> FALSE, resub |-> FALSE, mode |-> "narrow",
              eq |-> "shallow", hasWrite |-> TRUE, hostAborts |-> FALSE]
    /\ ymap \in [Nodes -> Val]
    /\ source = "A"
    /\ snapAtom = UNSET
    /\ lastYAtom = NULL
    /\ yRefAtom = NULL
    /\ mounted = FALSE
    /\ handlers = [n \in Nodes |-> 0]
    /\ subY = NULL
    /\ effDirty = TRUE
    /\ effSrcDep = TRUE
    /\ subErr = FALSE
    /\ hist = NoHist
    /\ fac = NoFac

\* withTransact(A.doc, fn, origin) called directly; fn makes the mutations
\* args.ops and then, with args.throws, raises an exception
CallWithTransact ==
    /\ call.args.api = "withTransact"
    /\ call.out = NoOutcome
    /\ call' = [call EXCEPT !.out = TransactOutcome(call.args.doc, call.args.throws,
                                                     call.args.origin, call.args.env)]
    /\ ymap' = withTransact("A", call.args.ops, ymap)
    /\ UNCHANGED <<cfg, fac, source, snapAtom, lastYAtom, yRefAtom, mounted, handlers,
                   subY, effDirty, effSrcDep, subErr, hist>>

\* the end of out's write function: the origin is resolved and withTransact
\* is called with the closure that calls write
CallSetTransact ==
    /\ call.args.api = "set"
    /\ call.out = NoOutcome
    /\ call' = [call EXCEPT !.out =
                   TransactOutcome(call.args.doc, call.args.throws,
                                   ResolveOrigin(call.args.layer, call.args.opt),
                                   call.args.env)]
    /\ ymap' = withTransact("A", call.args.ops, ymap)
    /\ UNCHANGED <<cfg, fac, source, snapAtom, lastYAtom, yRefAtom, mounted, handlers,
                   subY, effDirty, effSrcDep, subErr, hist>>

NextCall ==
    \/ CallWithTransact
    \/ CallSetTransact

SpecCall == InitCall /\ [][NextCall]_vars

\* ------------------------------------------ the factories' state machine

\* the engine's variables for a binding made by a factory: a literal node,
\* default options
EngineIdle ==
    /\ call = NoCall
    /\ cfg = [hasYAtom |-> FALSE, resub |-> FALSE, mode |-> "filter",
              eq |-> "shallow", hasWrite |-> TRUE, hostAborts |-> FALSE]
    /\ ymap = [n \in Nodes |-> 0]
    /\ source = "A"
    /\ snapAtom = UNSET
    /\ lastYAtom = NULL
    /\ yRefAtom = NULL
    /\ mounted = FALSE
    /\ handlers = [n \in Nodes |-> 0]
    /\ subY = NULL
    /\ effDirty = TRUE
    /\ effSrcDep = TRUE
    /\ subErr = FALSE
    /\ hist = NoHist

EngineUnchanged ==
    UNCHANGED <<cfg, ymap, source, snapAtom, lastYAtom, yRefAtom, mounted,
                handlers, subY, effDirty, effSrcDep, subErr, hist, call>>

InitCreate == [kind : {"create"}, f : CreateCalls, done : {FALSE}]

\* a factory is called with the arguments fac.f
CreateAtom ==
    /\ fac.kind = "create"
    /\ ~fac.done
    /\ fac' = [kind |-> "created", f |-> fac.f, out |-> Created(fac.f)]
    /\ EngineUnchanged

InitFilter == [kind : {"event"}, index : 0..MaxIndex, evt : ArrayEvents]

\* the observer callback of an array-index binding applies eventFilter
FilterEvent ==
    /\ fac.kind = "event"
    /\ fac' = [kind |-> "filtered", index |-> fac.index, evt |-> fac.evt,
               passed |-> arrayEventFilter(fac.evt, fac.index)]
    /\ EngineUnchanged

\* a mounted binding made by createYArrayIndexAtom(arr, index)
InitArray ==
    [kind : {"array"}, index : 0..MaxIndex, y : Arrays, snap : {UNSET},
     last : {[op |-> "none"]}]

\* get() of the array-index binding: stateAtom over the literal array
ArrayOut ==
    IF fac.snap # UNSET THEN fac.snap ELSE ArrGet(fac.y, fac.index)

\* another writer inserts items at p; the observer callback gets the event
ArrayInsert(p, items) ==
    /\ fac.kind = "array"
    /\ p <= Len(fac.y)
    /\ Len(fac.y) + Len(items) <= MaxArr
    /\ LET a == ArrInsert(fac.y, p, items)
           evt == [hasDelta |-> TRUE, delta |-> DeltaOf("insert", p, Len(items))]
       IN fac' = [fac EXCEPT !.y = a,
                             !.snap = ArraySync(fac.snap, a, fac.index, evt),
                             !.last = [op |-> "insert", p |-> p, k |-> Len(items)]]
    /\ EngineUnchanged

\* another writer deletes k items at p; the observer callback gets the event
ArrayDelete(p, k) ==
    /\ fac.kind = "array"
    /\ p + k <= Len(fac.y)
    /\ LET a == ArrDelete(fac.y, p, k)
           evt == [hasDelta |-> TRUE, delta |-> DeltaOf("delete", p, k)]
       IN fac' = [fac EXCEPT !.y = a,
                             !.snap = ArraySync(fac.snap, a, fac.index, evt),
                             !.last = [op |-> "delete", p |-> p, k |-> k]]
    /\ EngineUnchanged

\* a binding made by createYMapFieldsAtom(map, keys, opts) and an object
\* about to be passed to set()
InitFields ==
    [kind : {"fields"}, o : FieldOpts, y : FieldMaps, next : FieldNexts]

\* set(next) on the multi-key binding: out's write compares
\* readFields(map) with next and calls write inside one transaction
FieldsSet ==
    /\ fac.kind = "fields"
    /\ LET current == readFields(fac.o, fac.y)
           wrote == ~shallowEqualObj(current, fac.next)
           ops == IF wrote THEN fieldsWrite(fac.o, fac.y, fac.next) ELSE NoOps
       IN fac' = [kind |-> "fieldsSet", o |-> fac.o, y0 |-> fac.y,
                  next |-> fac.next, wrote |-> wrote, ops |-> ops,
                  y |-> MapAfter(fac.y, ops, fac.next)]
    /\ EngineUnchanged

\* a binding made by createYMapEntryAtom(map, key, { deleteOnNull }) and a
\* value about to be passed to set()
InitEntry ==
    [kind : {"entry"}, deleteOnNull : BOOLEAN, y : EntryVals,
     next : YTypes \cup {JsNull}]

\* set(next) on the map-entry binding: out's write compares readEntry(map)
\* with next by === and calls write inside one transaction
EntrySet ==
    /\ fac.kind = "entry"
    /\ LET current == readEntry(fac.y)
           wrote == current # fac.next
       IN fac' = [kind |-> "entrySet", deleteOnNull |-> fac.deleteOnNull,
                  y0 |-> fac.y, next |-> fac.next, wrote |-> wrote,
                  y |-> IF wrote THEN entryWrite(fac.deleteOnNull, fac.y, fac.next)
                        ELSE fac.y]
    /\ EngineUnchanged

\* a binding made by createYTextAtom(txt) and a string about to be passed
\* to set()
InitText == [kind : {"text"}, y : Texts, next : Texts]

\* set(next) on the text binding: out's write compares the content with
\* next by === and calls write, which applies the patches of diff
TextSet ==
    /\ fac.kind = "text"
    /\ IF fac.y = fac.next
       THEN fac' = [kind |-> "textSet", y0 |-> fac.y, next |-> fac.next,
                    patches |-> <<>>, nops |-> 0, y |-> fac.y]
       ELSE \E patches \in diff(fac.y, fac.next) :
              LET r == textWrite(fac.y, patches)
              IN fac' = [kind |-> "textSet", y0 |-> fac.y, next |-> fac.next,
                         patches |-> patches, nops |-> r.nops, y |-> r.t]
    /\ EngineUnchanged

\* a binding made by createYPathAtom(root, path) with no options, and a
\* value about to be passed to set(), any number of times
InitPath ==
    [kind : {"path"}, parent : {"map", "none"}, idx : {0}, env : Envs,
     next : Val \cup {Undefined}, calls : {0},
     y : {d \in PathDocs : d.arr = <<>>}]
    \cup
    [kind : {"path"}, parent : {"array"}, idx : 0..(MaxArr + 1), env : Envs,
     next : Val \cup {Undefined}, calls : {0},
     y : {d \in PathDocs : d.slot = Absent}]

\* set(next) on the path binding: out's write reads the value at the path,
\* returns when it equals next, and calls writeAtPath in a transaction
PathSet ==
    /\ fac.kind \in {"path", "pathSet"}
    /\ fac.calls < MaxCalls
    /\ LET current == readAtPath(fac.parent, fac.y, fac.idx)
           r == IF current = fac.next
                THEN [doc |-> fac.y, warned |-> FALSE, mutated |-> FALSE]
                ELSE writeAtPath(fac.parent, fac.y, fac.idx, fac.env, fac.next)
       IN fac' = [kind |-> "pathSet", parent |-> fac.parent, idx |-> fac.idx,
                  env |-> fac.env, next |-> fac.next, calls |-> fac.calls + 1,
                  y0 |-> fac.y, wrote |-> current # fac.next,
                  warned |-> r.warned, mutated |-> r.mutated, threw |-> FALSE,
                  y |-> r.doc]
    /\ EngineUnchanged

\* a binding made by createYArrayIndexAtom(arr, index) and a defined value
\* about to be passed to set(), any number of times
InitIndex ==
    [kind : {"index"}, index : 0..MaxArr, next : Val, calls : {0}, y : Arrays]

\* set(next) on the array-index binding
IndexSet ==
    /\ fac.kind \in {"index", "indexSet"}
    /\ fac.calls < MaxCalls
    /\ LET current == ArrGet(fac.y, fac.index)
           r == IF current = fac.next
                THEN [y |-> fac.y, threw |-> FALSE, mutated |-> FALSE]
                ELSE arrayIndexWrite(fac.y, fac.index, fac.next)
       IN fac' = [kind |-> "indexSet", index |-> fac.index, next |-> fac.next,
                  calls |-> fac.calls + 1, y0 |-> fac.y,
                  mutated |-> r.mutated, threw |-> r.threw, y |-> r.y]
    /\ EngineUnchanged

InitFactory ==
    /\ fac \in InitCreate \cup InitFilter \cup InitArray \cup InitFields
             \cup InitEntry \cup InitText \cup InitPath \cup InitIndex
    /\ EngineIdle

NextFactory ==
    \/ CreateAtom
    \/ FilterEvent
    \/ \E p \in 0..MaxArr, items \in Arrays \ {<<>>} : ArrayInsert(p, items)
    \/ \E p \in 0..MaxArr, k \in 1..MaxArr : ArrayDelete(p, k)
    \/ FieldsSet
    \/ EntrySet
    \/ TextSet
    \/ PathSet
    \/ IndexSet

SpecFactory == InitFactory /\ [][NextFactory]_vars

\* the node reads, writes and the subscription use now
ActiveY == getActiveY(yRefAtom, source)

TypeOK ==
    /\ cfg \in Configs
    /\ ymap \in [Nodes -> Val]
    /\ source \in Nodes \cup {NULL}
    /\ snapAtom \in Val \cup {NullVal, UNSET}
    /\ lastYAtom \in Nodes \cup {NULL}
    /\ yRefAtom \in Nodes \cup {NULL}
    /\ mounted \in BOOLEAN
    /\ handlers \in [Nodes -> 0..MaxHandlers]
    /\ hist.calls \in 0..MaxHandlers

\* ----------------------------------------------------------------- claims

\* C1: a mounted projection over one fixed node, observing in deep mode or
\* without an event filter: whatever set() calls and external mutations of
\* the node have happened, once their change events are processed get()
\* returns a value equal under equals to read(node) on the node's state.
C1_FixedNodeConverges ==
    (mounted /\ cfg.mode # "filter")
        => (OutRead # TypeError /\ equals(OutRead, Read(source, ymap)))

\* a mounted binding whose cache was kept by the equality guard although the
\* node holds another value
C1_Witness ==
    /\ mounted
    /\ cfg.mode # "filter"
    /\ hist.syncs > 0
    /\ snapAtom # UNSET
    /\ snapAtom # ymap[source]

\* C2: set() never assigns the cached snapshot or the active-node stamp
\* itself: a step changes either only if it ran the init step of a mount or
\* at least one sync step for a delivered change event.
C2_SetNeverAssignsCache ==
    [][(snapAtom' # snapAtom \/ lastYAtom' # lastYAtom)
         => ((~mounted /\ mounted') \/ hist'.syncs > 0)]_vars

\* set() ran write, no observer of the binding was called, and the cache still
\* holds another value than the one written
C2_Witness ==
    /\ hist.wrote \in Val
    /\ hist.calls = 0
    /\ snapAtom # UNSET
    /\ snapAtom # hist.wrote

\* C3: on a mounted projection, after set(v) has run write and the change
\* event of the write has been processed, get() is equal to v under equals.
C3_WriteThenObserve ==
    (mounted /\ hist.wrote \in Val)
        => (OutRead # TypeError /\ equals(OutRead, hist.wrote))

\* set(v) replaced a cached snapshot by v through the change event
C3_Witness ==
    /\ mounted
    /\ hist.wrote \in Val
    /\ hist.syncs > 0
    /\ snapAtom = hist.wrote
    /\ OutRead = hist.wrote

\* C4: get() returns the cached snapshot exactly when the cache is set and,
\* with resubscribeOnSourceChange, the stamp is the current source; in every
\* other state it returns a fresh read(currentSource).
C4_GetCachedOrFresh ==
    OutRead = IF snapAtom # UNSET /\ (cfg.resub => lastYAtom = source)
              THEN snapAtom
              ELSE Read(source, ymap)

\* C5: a processed change event overwrites the cache only if it was unset or
\* differs under equals from read(activeNode); and of two successive processed
\* mutations the second, if it leaves the node as it was (same key, same
\* value), changes neither the cache nor what get() returns.
C5_EqualitySuppression ==
    [][/\ (hist'.syncs > 0 /\ mounted /\ snapAtom' # snapAtom)
            => (snapAtom = UNSET \/ ~equals(snapAtom, Read(ActiveY', ymap')))
       /\ (hist.syncs > 0 /\ hist'.syncs > 0 /\ ymap' = ymap)
            => (snapAtom' = snapAtom /\ OutRead' = OutRead)]_vars

\* a sync step ran and the equality guard kept a cached value that is not the
\* value read
C5_Witness ==
    /\ hist.syncs > 0
    /\ ActiveY # NULL
    /\ snapAtom # UNSET
    /\ snapAtom # ymap[ActiveY]
    /\ equals(snapAtom, ymap[ActiveY])

\* C6: the mutations made inside one transaction on the active node of a
\* mounted binding reach the binding as exactly one change-event delivery
\* (one call of its change handler), update the cache at most once, and the
\* cache then reflects the final value of the transaction and never an
\* intermediate one.
C6_OneDeliveryPerTransaction ==
    [][(mounted /\ ActiveY # NULL /\ ymap'[ActiveY] # ymap[ActiveY])
         => /\ hist'.calls = 1
            /\ snapAtom' \in {snapAtom, ymap'[ActiveY]}
            /\ equals(snapAtom', ymap'[ActiveY])]_vars

\* C7: with resubscribeOnSourceChange on a mounted binding, when the source
\* switches to a node B the very next get() returns read(B) (up to equals),
\* before any change event of B, and not a snapshot cached earlier.
C7_SwitchReadsNewSource ==
    [][(cfg.resub /\ mounted /\ source' # source /\ source' # NULL)
         => (OutRead' # TypeError /\ equals(OutRead', Read(source', ymap')))]_vars

\* C8: with resubscribeOnSourceChange on a mounted binding whose source is
\* the node B, a mutation of another node changes neither the cache nor the
\* stamp nor the value of get(), and a mutation of B's key is synced: the
\* stamp is B and the cache equals read(B).
C8_OldSourceIgnored ==
    [][(cfg.resub /\ mounted /\ mounted' /\ source # NULL /\ source' = source)
         => /\ ((\E n \in Nodes : n # source /\ ymap'[n] # ymap[n])
                  => (snapAtom' = snapAtom /\ lastYAtom' = lastYAtom
                      /\ OutRead' = OutRead))
            /\ (ymap'[source] # ymap[source]
                  => (lastYAtom' = source /\ equals(snapAtom', ymap'[source])))]_vars

\* C9: with resubscribeOnSourceChange on a mounted binding that observes in
\* deep mode or without an event filter, get() is equal under equals to
\* read(currentSource), whatever source switches, mutations and deliveries
\* came before.
C9_NeverStaleAfterSwitches ==
    (cfg.resub /\ mounted /\ cfg.mode # "filter")
        => (OutRead # TypeError /\ equals(OutRead, Read(source, ymap)))

\* C10: without resubscribeOnSourceChange, while a binding mounted with a node
\* stays mounted: a switch of the source does not change the value of get(),
\* a mutation of the pinned node's key is synced into the cache, and a
\* mutation of any other node changes neither the cache nor the stamp.
C10_PinnedSourceStable ==
    [][(~cfg.resub /\ cfg.hasYAtom /\ mounted /\ mounted' /\ yRefAtom # NULL)
         => /\ (source' # source => OutRead' = OutRead)
            /\ (ymap'[yRefAtom] # ymap[yRefAtom]
                  => (hist'.syncs > 0 /\ equals(snapAtom', ymap'[yRefAtom])
                      /\ equals(OutRead', ymap'[yRefAtom])))
            /\ ((\E n \in Nodes : n # yRefAtom /\ ymap'[n] # ymap[n])
                  => (snapAtom' = snapAtom /\ lastYAtom' = lastYAtom
                      /\ OutRead' = OutRead))]_vars

\* the source has moved away from the pinned node, whose event was just synced
C10_Witness ==
    /\ ~cfg.resub
    /\ cfg.hasYAtom
    /\ mounted
    /\ yRefAtom # NULL
    /\ source # NULL
    /\ source # yRefAtom
    /\ hist.syncs > 0
    /\ snapAtom = ymap[yRefAtom]
    /\ ymap[source] # ymap[yRefAtom]

\* C11: without resubscribeOnSourceChange, once a node is pinned the pinned
\* reference never changes again, whatever source switches, change events,
\* unmounts and re-mounts follow.
C11_PinNeverChanges ==
    [][(~cfg.resub /\ yRefAtom # NULL) => yRefAtom' = yRefAtom]_vars

\* C12: a set() that runs write mutates exactly the node reads and the
\* subscription use; without resubscribeOnSourceChange that node is and stays
\* the node pinned at the mount, whatever the source is switched to, and with
\* resubscribeOnSourceChange it is the current source.
C12_SetTargetsActiveNode ==
    [][/\ (hist'.wrote \in Val
             => (ActiveY # NULL /\ ymap' = [ymap EXCEPT ![ActiveY] = hist'.wrote]))
       /\ (cfg.resub => ActiveY' = source')
       /\ ((~cfg.resub /\ yRefAtom # NULL) => ActiveY' = yRefAtom)]_vars

\* C13: in every reachable state the binding holds at most one live change
\* subscription.
C13_AtMostOneSubscription ==
    handlers["A"] + handlers["B"] <= 1

\* C14: while a binding that was mounted (its mount pinned a node) is
\* unmounted, no mutation of a node calls its change handler, and the cache
\* and the stamp stay as they are.
C14_NoCallbackAfterUnmount ==
    [][(~mounted /\ ~mounted' /\ yRefAtom # NULL)
         => (hist'.calls = 0 /\ snapAtom' = snapAtom /\ lastYAtom' = lastYAtom)]_vars

C16_FirstGetAfterMount ==
    [][(~mounted /\ mounted' /\ ActiveY' # NULL)
         => (OutRead' # TypeError /\ equals(OutRead', ymap'[ActiveY']))]_vars

\* C17: a binding that is not mounted has no change handler registered on any
\* node.
C17_NoHandlerWhenUnmounted ==
    ~mounted => \A n \in Nodes : handlers[n] = 0

\* C18: while the binding is unmounted, get() over a source that is a node
\* returns a fresh read(currentSource) of the node's current state.
C18_UnmountedGetIsFresh ==
    (~mounted /\ source # NULL)
        => (OutRead # TypeError /\ equals(OutRead, ymap[source]))

\* C19: while the active node is null, no set() invokes write and no set()
\* throws.
C19_NullSetIsNoOp ==
    [][ActiveY = NULL => hist'.wrote \notin (Val \cup {TypeError})]_vars

\* C20: while the resolved node is null no change handler registration is
\* attempted, get() does not throw and returns read(null).
C20_NullGetReadsPlaceholder ==
    ActiveY = NULL => OutRead = Read(NULL, ymap)

C22_FirstNodePinned ==
    [][(~cfg.resub /\ mounted /\ mounted' /\ yRefAtom = NULL)
         => /\ ((source = NULL /\ source' # NULL) => ActiveY' = source')
            /\ (source # NULL => ActiveY' = source)]_vars

\* C23: in narrow mode with an event filter on the bound key, a mutation of
\* an unrelated key triggers no recompute: no sync runs and the cache, the
\* stamp and get() are unchanged.
C23_FilteredEventNoRecompute ==
    [][(cfg.mode = "filter" /\ \E n \in Nodes : ExtSetB(n))
         => /\ hist'.syncs = 0
            /\ snapAtom' = snapAtom
            /\ lastYAtom' = lastYAtom
            /\ OutRead' = OutRead]_vars

\* the handler of a mounted binding was called for an event the filter
\* rejected, and the cache is set
C23_Witness ==
    /\ cfg.mode = "filter"
    /\ mounted
    /\ hist.calls > 0
    /\ hist.syncs = 0
    /\ snapAtom # UNSET

\* C24: in deep mode no filter is consulted: every change batch delivered to
\* a handler of the binding, a mutation of an unrelated key included, runs
\* sync, which stamps the active node and leaves the cache equal to
\* read(activeNode).
C24_DeepAlwaysRecomputes ==
    [][(cfg.mode = "deep"
          /\ \E n \in Nodes : (handlers[n] > 0 /\ (ExtSetB(n) \/ ymap'[n] # ymap[n])))
         => /\ hist'.syncs > 0
            /\ hist'.syncs = hist'.calls
            /\ lastYAtom' = ActiveY'
            /\ equals(snapAtom', Read(ActiveY', ymap'))]_vars

\* in deep mode a delivered event that changed nothing the projection reads
\* ran sync
C24_Witness ==
    /\ cfg.mode = "deep"
    /\ mounted
    /\ hist.syncs > 0
    /\ hist.wrote = UNSET
    /\ lastYAtom = ActiveY
    /\ snapAtom # UNSET

\* C25: set(update) invokes write, once and inside one transaction on the
\* active node, exactly when a write function was supplied, the active node
\* is a node and equals(read(activeNode), next) is false; in every other case
\* write is not invoked and every node is unchanged.
C25_SetWritesIff ==
    [][\A u \in Updates :
         Set(u) =>
           LET y == ActiveY
               next == IF u.kind = "updater"
                       THEN (IF Read(y, ymap) < 0 THEN 0
                             ELSE (Read(y, ymap) + 1) % (MaxVal + 1))
                       ELSE u.v
           IN IF cfg.hasWrite /\ y # NULL /\ ~equals(Read(y, ymap), next)
              THEN hist'.wrote = next /\ ymap' = [ymap EXCEPT ![y] = next]
              ELSE hist'.wrote \notin Val /\ ymap' = ymap]_vars

\* a set() ran write on the active node and nothing else changed
C25_Witness ==
    /\ cfg.hasWrite
    /\ ActiveY # NULL
    /\ hist.wrote \in Val
    /\ ymap[ActiveY] = hist.wrote
    /\ \E n \in Nodes : n # ActiveY /\ ymap[n] # hist.wrote

\* C26: an updater passed to set() is applied to read(activeNode) on the
\* node's state at the time of the call, not to the cached snapshot, also
\* while the cache is unset or stale and while the binding is unmounted.
C26_UpdaterUsesNodeState ==
    [][(cfg.hasWrite /\ ActiveY # NULL /\ Set([kind |-> "updater", v |-> 1]))
         => LET next == (ymap[ActiveY] + 1) % (MaxVal + 1)
            IN IF equals(ymap[ActiveY], next)
               THEN ymap' = ymap
               ELSE ymap'[ActiveY] = next /\ hist'.wrote = next]_vars

\* an unmounted binding with an unset cache has written the successor of the
\* node's value
C26_Witness ==
    /\ ~mounted
    /\ snapAtom = UNSET
    /\ ActiveY # NULL
    /\ hist.wrote = MaxVal
    /\ ymap[ActiveY] = MaxVal

\* C27: every transaction opened by set() carries one origin tag: the
\* configured value when it is not a function, the function's result for the
\* active node and type 'write' when it is one, and otherwise the layer's
\* default, '[y-jotai] atom-write' for createYAtom and '[y-jotai] path-write'
\* for createYPathAtom.
C27_OriginTag ==
    (call.args.api = "set" /\ call.out.txns = 1)
        => call.out.tag =
             (IF call.args.opt = "static" THEN StaticOrigin
              ELSE IF call.args.opt = "function" THEN FnOrigin
              ELSE IF call.args.layer = "atom" THEN "[y-jotai] atom-write"
              ELSE "[y-jotai] path-write")

\* C28: withTransact(doc, fn, origin) runs fn exactly once: with a document
\* inside one transaction tagged with origin and without a warning; without
\* one directly, in no transaction, with a warning (outside production
\* builds, where diagnostics are compiled out) and nothing thrown by the
\* wrapper. An exception leaves the call exactly when fn raised one, and fn's
\* mutations are made in both cases.
C28_WithTransactRunsOnce ==
    call.out # NoOutcome
        => /\ call.out.ran = 1
           /\ call.out.threw = call.args.throws
           /\ (call.args.doc
                 => /\ call.out.txns = 1
                    /\ call.out.warned = FALSE
                    /\ (call.args.api = "withTransact"
                          => call.out.tag = call.args.origin))
           /\ (~call.args.doc
                 => /\ call.out.txns = 0
                    /\ call.out.tag = NoOrigin
                    /\ call.out.warned = (call.args.env # "production"))
           /\ ("a" \in KeysOf(call.args.ops)
                 => ymap["A"] = ApplyOps(0, call.args.ops))

\* withTransact was called for a node without a document and fn mutated the
\* node and returned
C28_Witness ==
    /\ call.args.api = "withTransact"
    /\ ~call.args.doc
    /\ ~call.args.throws
    /\ call.out.ran = 1
    /\ call.out.warned
    /\ "a" \in KeysOf(call.args.ops)
    /\ ymap["A"] = MaxVal

\* C29: an exception of read leaves get(), an exception of write leaves
\* set(), and after either failure the cache, the stamp and the binding's
\* subscriptions are as they were before the call.
C29_FailureLeavesBindingIntact ==
    [][hist'.wrote \in {ReadError, WriteError}
         => /\ snapAtom' = snapAtom
            /\ lastYAtom' = lastYAtom
            /\ handlers' = handlers]_vars

\* C30: when unsubscribe() throws during teardown, the error reaches no
\* caller and the teardown completes: no handler of the binding is left on
\* the old node and, on a resubscription to a node, a handler is on the new
\* node.
C30_TeardownCompletes ==
    [][hist'.wrote = UnsubError
         => /\ handlers'[subY] = 0
            /\ ((mounted' /\ source' # NULL) => handlers'[source'] > 0)]_vars

\* C37: whenever a binding is mounted and its active node is a node, the
\* binding's observers are registered on the active node and on no other
\* node.
C37_SubscriptionOnActiveNode ==
    (mounted /\ ActiveY # NULL)
        => /\ handlers[ActiveY] >= 1
           /\ \A n \in Nodes : n # ActiveY => handlers[n] = 0

\* C38: every sync step stamps the node it read, also when the equality
\* guard keeps the cache: after an operation that ran a sync step the stamp
\* is the active node and the cache is equal under equals to
\* read(activeNode).
C38_SyncStampsActiveNode ==
    [][hist'.syncs > 0
         => /\ lastYAtom' = ActiveY'
            /\ snapAtom' # UNSET
            /\ (snapAtom' # snapAtom => snapAtom' = Read(ActiveY', ymap'))
            /\ equals(snapAtom', Read(ActiveY', ymap'))]_vars

\* a sync step has stamped the active node and the equality guard has kept a
\* cache that differs from read(activeNode)
C38_Witness ==
    /\ mounted
    /\ ActiveY # NULL
    /\ hist.syncs > 0
    /\ lastYAtom = ActiveY
    /\ snapAtom # UNSET
    /\ snapAtom # ymap[ActiveY]

\* C31 (as the spec states it): a map-key factory called with a key that is
\* not a non-empty string, an array-index factory called with a negative or
\* non-integer index, and a path factory called with an empty path throw
\* from the factory call and return no atom.
C31_InvalidArgumentThrows ==
    (fac.kind = "created"
       /\ \/ (fac.f.factory = "createYMapKeyAtom" /\ (~fac.f.isString \/ fac.f.len = 0))
          \/ (fac.f.factory = "createYArrayIndexAtom"
                /\ (~fac.f.isInteger \/ fac.f.index < 0))
          \/ (fac.f.factory = "createYPathAtom" /\ fac.f.len = 0))
        => (fac.out.threw /\ ~fac.out.atom)

\* C31 (as the code has it): outside production builds the three factories
\* throw from the call exactly for such arguments, returning no atom; in a
\* production build they validate nothing and return an atom. In both cases
\* the call registers no observer and neither reads nor mutates a node.
C31_InvalidArgumentThrowsInDev ==
    fac.kind = "created"
        => LET c == fac.f
               bad == \/ (c.factory = "createYMapKeyAtom" /\ (~c.isString \/ c.len = 0))
                      \/ (c.factory = "createYArrayIndexAtom"
                            /\ (~c.isInteger \/ c.index < 0))
                      \/ (c.factory = "createYPathAtom" /\ c.len = 0)
           IN /\ fac.out.threw = (bad /\ c.env # "production")
              /\ fac.out.atom = ~fac.out.threw
              /\ fac.out.observers = 0
              /\ fac.out.reads = 0
              /\ fac.out.mutations = 0

\* a development build has rejected a non-integer index
C31_Witness ==
    /\ fac.kind = "created"
    /\ fac.f.factory = "createYArrayIndexAtom"
    /\ fac.f.env = "development"
    /\ ~fac.f.isInteger
    /\ fac.f.index >= 0
    /\ fac.out.threw
    /\ ~fac.out.atom

\* C39: the array-index eventFilter returns true exactly when the delta has
\* an insert run or a delete run that starts at a position <= i, the
\* position of a run being the sum of the retains and of the lengths of the
\* inserts before it; an event without a delta array is relevant.
C39_FilterIffRunAtOrBeforeIndex ==
    fac.kind = "filtered"
        => LET d == fac.evt.delta
               start(k) == IF k = 1 THEN 0
                           ELSE LET pre == {j \in 1..(k - 1) : d[j].t # "delete"}
                                    sum[S \in SUBSET pre] ==
                                        IF S = {} THEN 0
                                        ELSE LET x == CHOOSE x \in S : TRUE
                                             IN d[x].n + sum[S \ {x}]
                                IN sum[pre]
           IN IF ~fac.evt.hasDelta THEN fac.passed
              ELSE fac.passed =
                     (\E k \in 1..Len(d) : d[k].t # "retain" /\ start(k) <= fac.index)

\* the filter has dropped a delta whose delete run starts after the index
\* behind an insert that the position was advanced by
C39_Witness ==
    /\ fac.kind = "filtered"
    /\ fac.evt.hasDelta
    /\ ~fac.passed
    /\ \E k \in 1..Len(fac.evt.delta) : fac.evt.delta[k].t = "delete"
    /\ \E k \in 1..Len(fac.evt.delta) : fac.evt.delta[k].t = "insert"

\* C32: for a mounted array-index binding on index i, after the event of any
\* one insert or delete on the array is processed, get() is the element at i
\* of the new array (undefined beyond its end): an insert at a position <= i
\* shifts the tracked value, an insert at a position > i leaves the cache
\* as it was.
C32_ArrayIndexFollowsShifts ==
    [][(fac'.kind = "array" /\ fac'.last.op # "none")
         => /\ ArrayOut' = ArrGet(fac'.y, fac'.index)
            /\ ((fac'.last.op = "insert" /\ fac'.last.p > fac.index)
                  => (fac'.snap = fac.snap /\ ArrayOut' = ArrayOut))
            /\ ((fac'.last.op = "insert" /\ fac'.last.p <= fac.index
                   /\ fac.index - fac'.last.k >= fac'.last.p)
                  => ArrayOut' = ArrGet(fac.y, fac.index - fac'.last.k))]_vars

\* an insert before the tracked index has moved another value into it, and
\* the cache holds that value
C32_Witness ==
    /\ fac.kind = "array"
    /\ fac.last.op = "insert"
    /\ fac.last.p < fac.index
    /\ fac.snap = ArrGet(fac.y, fac.index)
    /\ fac.snap = MaxVal
    /\ ArrGet(fac.y, fac.index - 1) # fac.snap

C34_SetNullDeletesKey ==
    (fac.kind = "entrySet" /\ fac.next = JsNull)
        => /\ (fac.deleteOnNull => fac.y = Absent)
           /\ ((~fac.deleteOnNull /\ fac.y0 \in YTypes) => fac.y = JsNull)

\* C35: for every pair of current and next strings and every edit script of
\* the pair, set(next) on the text binding leaves the content exactly next,
\* and the write makes one insert or delete operation per INSERT or DELETE
\* run and none for an EQUAL run.
C35_TextWriteReproducesNext ==
    fac.kind = "textSet"
        => /\ fac.y = fac.next
           /\ fac.nops = Cardinality({k \in 1..Len(fac.patches) :
                                        fac.patches[k].op # DIFF_EQUAL})

\* a write has applied a script with an equal run between a delete run and
\* an insert run
C35_Witness ==
    /\ fac.kind = "textSet"
    /\ fac.y = fac.next
    /\ fac.y0 # fac.next
    /\ Len(fac.patches) = 3
    /\ fac.patches[1].op = DIFF_DELETE
    /\ fac.patches[2].op = DIFF_EQUAL
    /\ fac.patches[3].op = DIFF_INSERT
    /\ fac.nops = 2

\* C36 as stated: with no custom writer, set(undefined) on a path binding,
\* or any set whose parent segment resolves to neither a map nor an array,
\* changes nothing in the document, throws nothing, and emits a warning
\* (looked for where warnings are on, outside production).
C36_NoMutationAndWarning ==
    (fac.kind = "pathSet" /\ (fac.next = Undefined \/ fac.parent = "none"))
        => /\ fac.y = fac.y0
           /\ ~fac.mutated
           /\ ~fac.threw
           /\ (fac.env # "production" => fac.warned)

\* C36 amended: the same set changes nothing in the document and throws
\* nothing; the warning is emitted exactly when the value read at the path
\* differs from the value set, so that the writer is reached, and the
\* process is not in production.
C36_NoMutationWarnsWhenWriterReached ==
    (fac.kind = "pathSet" /\ (fac.next = Undefined \/ fac.parent = "none"))
        => /\ fac.y = fac.y0
           /\ ~fac.mutated
           /\ ~fac.threw
           /\ (fac.warned <=> (fac.wrote /\ fac.env # "production"))

\* set(undefined) has reached the default writer on a key that holds a
\* value: the key still holds it and the warning was emitted
C36_Witness ==
    /\ fac.kind = "pathSet"
    /\ fac.parent = "map"
    /\ fac.next = Undefined
    /\ fac.y0.slot \in Val
    /\ fac.y = fac.y0
    /\ fac.wrote
    /\ fac.warned

\* C40: set(v) with a defined v, called a second time on a path binding or
\* an array-index binding, changes nothing: the document is as the first
\* call left it, also when the index is at or beyond the array's length.
C40_SecondSetChangesNothing ==
    (fac.kind \in {"pathSet", "indexSet"} /\ fac.calls = 2 /\ fac.next \in Val)
        => (fac.y = fac.y0 /\ ~fac.mutated)

====
